---- MODULE Spec2Model ----
(***************************************************************************)
(* Model of the warehouse manager (src/app.py): the record store (units,   *)
(* tenants, occupancies, invoices, invoice_items), the operations that     *)
(* write it, and the monthly proration billing computed from it.           *)
(*                                                                         *)
(* Tables are sequences in rowid order; a row's id is its position (rows   *)
(* of units, tenants, occupancies and invoices are never deleted).         *)
(* Calendar dates are <<year, month, day>>; the ISO text the code stores   *)
(* orders exactly as these tuples do, field by field. Money is a whole     *)
(* number of currency units.                                               *)
(***************************************************************************)
EXTENDS Integers, Sequences, FiniteSets, TLC

VARIABLES units, tenants, occupancies, invoices, invoice_items, lastGen, txns,
          sessions, clock, login_records

vars == <<units, tenants, occupancies, invoices, invoice_items, lastGen, txns,
          sessions, clock, login_records>>

\* the session store, the time and the login log
auth == <<sessions, clock, login_records>>

\* SQL NULL / Python None (end_date, paid_at).
NULL == <<>>

----------------------------------------------------------------------------
(* Bounds of the model *)

MaxTenants == 2
MaxOccupancies == 2
MaxDatedOccupancies == 1
MaxInvoicedOccupancies == 2
MaxPeriodOccupancies == 2

\* periods invoices are generated for
GenPeriods == {<<2024, 2>>, <<2024, 3>>}
\* periods compute_billing is evaluated for in the properties
BillPeriods == {<<2023, 2>>, <<2024, 1>>, <<2024, 2>>, <<2024, 3>>,
                <<2024, 4>>, <<2025, 2>>}

----------------------------------------------------------------------------
(* Calendar arithmetic: datetime.date and calendar.monthrange *)

isleap(y) == (y % 4 = 0 /\ y % 100 # 0) \/ y % 400 = 0

mdays(m) == CASE m \in {1, 3, 5, 7, 8, 10, 12} -> 31
              [] m \in {4, 6, 9, 11} -> 30
              [] OTHER -> 28

\* monthrange(year, month)[1]
days_in_month(y, m) == mdays(m) + (IF m = 2 /\ isleap(y) THEN 1 ELSE 0)

RECURSIVE days_before_month(_, _)
days_before_month(y, m) ==
    IF m = 1 THEN 0 ELSE days_before_month(y, m - 1) + days_in_month(y, m - 1)

days_before_year(y) ==
    (y - 1) * 365 + ((y - 1) \div 4) - ((y - 1) \div 100) + ((y - 1) \div 400)

\* date.toordinal()
toordinal(d) == days_before_year(d[1]) + days_before_month(d[1], d[2]) + d[3]

\* (a - b).days
days_between(a, b) == toordinal(a) - toordinal(b)

\* a <= b on dates (and on their ISO text)
date_le(a, b) ==
    \/ a[1] < b[1]
    \/ a[1] = b[1] /\ a[2] < b[2]
    \/ a[1] = b[1] /\ a[2] = b[2] /\ a[3] <= b[3]

date_max(a, b) == IF date_le(a, b) THEN b ELSE a
date_min(a, b) == IF date_le(a, b) THEN a ELSE b

first_day(y, m) == <<y, m, 1>>
last_day(y, m) == <<y, m, days_in_month(y, m)>>

----------------------------------------------------------------------------
(* compute_billing *)

\* The WHERE clause of the occupancy query: three OR'd range conditions.
billing_where(o, y, m) ==
    LET first == first_day(y, m)
        last == last_day(y, m)
    IN  \/ /\ date_le(o.start_date, last)
           /\ (o.end_date = NULL \/ date_le(first, o.end_date))
        \/ date_le(first, o.start_date) /\ date_le(o.start_date, last)
        \/ /\ o.end_date # NULL
           /\ date_le(first, o.end_date) /\ date_le(o.end_date, last)

\* The inner JOINs: the occupancy's unit and tenant rows must exist.
\* (U, T and O are the units, tenants and occupancies tables read.)
billing_joined(U, T, o) ==
    /\ o.unit_id \in 1..Len(U)
    /\ o.tenant_id \in 1..Len(T)

\* rowids of the occupancies the query returns, in rowid order
RECURSIVE billing_ids_from(_, _, _, _, _, _)
billing_ids_from(U, T, O, k, y, m) ==
    IF k > Len(O) THEN <<>>
    ELSE (IF billing_joined(U, T, O[k]) /\ billing_where(O[k], y, m)
          THEN <<k>> ELSE <<>>) \o billing_ids_from(U, T, O, k + 1, y, m)

billing_ids_of(U, T, O, y, m) == billing_ids_from(U, T, O, 1, y, m)

\* (mutant) the end day is not counted
billing_days_exclusive(o, y, m) ==
    LET start == date_max(o.start_date, first_day(y, m))
        end == date_min(IF o.end_date # NULL THEN o.end_date ELSE last_day(y, m),
                        last_day(y, m))
    IN  days_between(end, start)

\* days = (end - start).days + 1 over the clipped interval
billing_days(o, y, m) ==
    LET start == date_max(o.start_date, first_day(y, m))
        end == date_min(IF o.end_date # NULL THEN o.end_date ELSE last_day(y, m),
                        last_day(y, m))
    IN  days_between(end, start) + 1

\* (mutant) the line item priced at the unit's current rate
billing_item_current_rate(U, o, y, m) ==
    LET days == billing_days(o, y, m)
    IN  [unit_name |-> U[o.unit_id].name,
         days |-> days,
         daily_rate |-> U[o.unit_id].daily_rate,
         charge |-> days * U[o.unit_id].daily_rate]

\* the line item appended for one record
billing_item(U, o, y, m) ==
    LET days == billing_days(o, y, m)
    IN  [unit_name |-> U[o.unit_id].name,
         days |-> days,
         daily_rate |-> o.daily_rate,
         charge |-> days * o.daily_rate]

\* position of tenant t in the billing dict (0 when absent)
billing_index(billing, t) ==
    IF \E i \in 1..Len(billing) : billing[i].tenant_id = t
    THEN CHOOSE i \in 1..Len(billing) : billing[i].tenant_id = t
    ELSE 0

\* (mutant) a tenant's newest line item is put first
billing_add_prepends(U, T, billing, o, y, m) ==
    LET t == o.tenant_id
        item == billing_item(U, o, y, m)
        withKey == IF billing_index(billing, t) = 0
                   THEN Append(billing, [tenant_id |-> t,
                                         tenant_name |-> T[t].name,
                                         items |-> <<>>,
                                         total |-> 0])
                   ELSE billing
        i == billing_index(withKey, t)
    IN  [withKey EXCEPT ![i].items = <<item>> \o @,
                        ![i].total = @ + item.charge]

\* one pass of the loop over the records: the dict keeps insertion order
billing_add(U, T, billing, o, y, m) ==
    LET t == o.tenant_id
        item == billing_item(U, o, y, m)
        withKey == IF billing_index(billing, t) = 0
                   THEN Append(billing, [tenant_id |-> t,
                                         tenant_name |-> T[t].name,
                                         items |-> <<>>,
                                         total |-> 0])
                   ELSE billing
        i == billing_index(withKey, t)
    IN  [withKey EXCEPT ![i].items = Append(@, item),
                        ![i].total = @ + item.charge]

RECURSIVE billing_loop(_, _, _, _, _, _, _)
billing_loop(U, T, O, billing, ids, y, m) ==
    IF ids = <<>> THEN billing
    ELSE billing_loop(U, T, O, billing_add(U, T, billing, O[Head(ids)], y, m),
                      Tail(ids), y, m)

\* compute_billing(year, month) for a month in 1..12, read from the tables
\* U, T, O: the dict as the sequence of its entries in insertion order
compute_billing_of(U, T, O, y, m) ==
    billing_loop(U, T, O, <<>>, billing_ids_of(U, T, O, y, m), y, m)

\* compute_billing on the current tables
compute_billing(y, m) == compute_billing_of(units, tenants, occupancies, y, m)

billing_ids(y, m) == billing_ids_of(units, tenants, occupancies, y, m)

\* what compute_billing raises: date(year, month, 1) rejects a month outside
\* 1..12 with ValueError; nothing else in the function raises
compute_billing_error(y, m) ==
    IF m \notin 1..12 \/ y \notin 1..9999 THEN "ValueError" ELSE "none"

----------------------------------------------------------------------------
(* create_invoices *)

\* (mutant) the lookup with year and month bound in the wrong order
invoice_index_swapped(invs, t, y, m) ==
    IF \E i \in 1..Len(invs) :
          invs[i].tenant_id = t /\ invs[i].year = m /\ invs[i].month = y
    THEN CHOOSE i \in 1..Len(invs) :
          invs[i].tenant_id = t /\ invs[i].year = m /\ invs[i].month = y
    ELSE 0

\* (mutant) the tenant's first invoice, whatever its period
invoice_index_any_period(invs, t, y, m) ==
    IF \E i \in 1..Len(invs) : invs[i].tenant_id = t
    THEN CHOOSE i \in 1..Len(invs) :
          /\ invs[i].tenant_id = t
          /\ \A j \in 1..Len(invs) : invs[j].tenant_id = t => i <= j
    ELSE 0

\* SELECT id FROM invoices WHERE tenant_id = ? AND year = ? AND month = ?
\* (0 when there is no row)
invoice_index(invs, t, y, m) ==
    IF \E i \in 1..Len(invs) :
          invs[i].tenant_id = t /\ invs[i].year = y /\ invs[i].month = m
    THEN CHOOSE i \in 1..Len(invs) :
          invs[i].tenant_id = t /\ invs[i].year = y /\ invs[i].month = m
    ELSE 0

RECURSIVE item_rows(_, _)
item_rows(invoice_id, items) ==
    IF items = <<>> THEN <<>>
    ELSE <<[invoice_id |-> invoice_id,
            unit_name |-> Head(items).unit_name,
            days |-> Head(items).days,
            daily_rate |-> Head(items).daily_rate,
            amount |-> Head(items).charge]>> \o item_rows(invoice_id, Tail(items))

\* (mutant) the previous items are not removed
delete_items_none(rows, invoice_id) == rows

\* DELETE FROM invoice_items WHERE invoice_id = ?
delete_items(rows, invoice_id) ==
    SelectSeq(rows, LAMBDA r : r.invoice_id # invoice_id)

\* (mutant) the header update leaves status and paid_at as they were
upsert_invoice_keeps_status(db, data, y, m, now) ==
    LET row == invoice_index(db.invoices, data.tenant_id, y, m)
    IN  IF row # 0
        THEN [invoices |-> [db.invoices EXCEPT ![row].total_amount = data.total,
                                               ![row].created_at = now],
              invoice_items |-> delete_items(db.invoice_items, row)
                                  \o item_rows(row, data.items)]
        ELSE [invoices |-> Append(db.invoices,
                                  [tenant_id |-> data.tenant_id,
                                   year |-> y,
                                   month |-> m,
                                   total_amount |-> data.total,
                                   status |-> "pending",
                                   created_at |-> now,
                                   paid_at |-> NULL]),
              invoice_items |-> db.invoice_items
                                  \o item_rows(Len(db.invoices) + 1, data.items)]

\* (mutant) the header update leaves the total as it was
update_invoice_header_keeps_total(invs, row, total, now) ==
    [invs EXCEPT ![row].status = "pending",
                 ![row].created_at = now,
                 ![row].paid_at = NULL]

\* UPDATE invoices SET total_amount = ?, status = 'pending', created_at = ?,
\* paid_at = NULL WHERE id = ?
update_invoice_header(invs, row, total, now) ==
    [invs EXCEPT ![row].total_amount = total,
                 ![row].status = "pending",
                 ![row].created_at = now,
                 ![row].paid_at = NULL]

\* INSERT INTO invoices (...) VALUES (?, ?, ?, ?, 'pending', ?)
insert_invoice_header(invs, tenant_id, y, m, total, now) ==
    Append(invs, [tenant_id |-> tenant_id,
                  year |-> y,
                  month |-> m,
                  total_amount |-> total,
                  status |-> "pending",
                  created_at |-> now,
                  paid_at |-> NULL])

\* one pass of the loop over billing_data.items(): db is the pair of tables
upsert_invoice(db, data, y, m, now) ==
    LET row == invoice_index(db.invoices, data.tenant_id, y, m)
    IN  IF row # 0
        THEN [invoices |-> update_invoice_header(db.invoices, row, data.total, now),
              invoice_items |-> delete_items(db.invoice_items, row)
                                  \o item_rows(row, data.items)]
        ELSE [invoices |-> insert_invoice_header(db.invoices, data.tenant_id,
                                                 y, m, data.total, now),
              invoice_items |-> db.invoice_items
                                  \o item_rows(Len(db.invoices) + 1, data.items)]

RECURSIVE invoices_loop(_, _, _, _, _)
invoices_loop(db, billing, y, m, now) ==
    IF billing = <<>> THEN db
    ELSE invoices_loop(upsert_invoice(db, Head(billing), y, m, now),
                       Tail(billing), y, m, now)

\* (mutant) the period's invoices are emptied before they are generated
create_invoices_db_clears_period(y, m, now) ==
    LET stale(i) == invoices[i].year = y /\ invoices[i].month = m
    IN  invoices_loop(
            [invoices |-> [i \in 1..Len(invoices) |->
                              IF stale(i)
                              THEN update_invoice_header(invoices, i, 0, now)[i]
                              ELSE invoices[i]],
             invoice_items |-> SelectSeq(invoice_items,
                                         LAMBDA r : ~stale(r.invoice_id))],
            compute_billing(y, m), y, m, now)

\* the tables after create_invoices(year, month) commits
create_invoices_db(y, m, now) ==
    invoices_loop([invoices |-> invoices, invoice_items |-> invoice_items],
                  compute_billing(y, m), y, m, now)

----------------------------------------------------------------------------
(* The operations *)

\* lastGen remembers whether the last operation was create_invoices, and
\* then its period, whether it repeated the operation before it and whether
\* it regenerated an invoice that was paid.
NoGen == [op |-> "other", year |-> 0, month |-> 0, again |-> FALSE,
          paid |-> FALSE, token |-> 0]

\* the processes that may run create_invoices at the same time, each on a
\* connection of its own
Writers == {"w1", "w2"}

\* a connection that runs no create_invoices; error is how its last run ended
NoTxn == [pc |-> "idle", year |-> 0, month |-> 0, now |-> NULL,
          billing |-> <<>>, row |-> 0, invoice_id |-> 0, dirty |-> FALSE,
          db |-> [invoices |-> <<>>, invoice_items |-> <<>>], error |-> "none"]

\* sessions = {}
NoSessions == [token \in {} |-> NULL]

Init ==
    /\ units = <<>>
    /\ tenants = <<>>
    /\ occupancies = <<>>
    /\ invoices = <<>>
    /\ invoice_items = <<>>
    /\ lastGen = NoGen
    /\ txns = [w \in Writers |-> NoTxn]
    /\ sessions = NoSessions
    /\ clock = 0
    /\ login_records = <<>>

\* add_unit: the UNIQUE(name) constraint rejects a second unit of that name
add_unit(name, daily_rate) ==
    /\ \A i \in 1..Len(units) : units[i].name # name
    /\ units' = Append(units, [name |-> name, daily_rate |-> daily_rate])
    /\ lastGen' = NoGen
    /\ UNCHANGED <<auth, txns, tenants, occupancies, invoices, invoice_items>>

\* (mutant) the new rate is also written to the unit's occupancies
update_unit_rate_cascade(unit_id, daily_rate) ==
    /\ units' = [i \in 1..Len(units) |->
                    IF i = unit_id THEN [units[i] EXCEPT !.daily_rate = daily_rate]
                    ELSE units[i]]
    /\ occupancies' = [k \in 1..Len(occupancies) |->
                          IF occupancies[k].unit_id = unit_id
                             /\ unit_id \in 1..Len(units)
                          THEN [occupancies[k] EXCEPT !.daily_rate = daily_rate]
                          ELSE occupancies[k]]
    /\ lastGen' = NoGen
    /\ UNCHANGED <<auth, txns, tenants, invoices, invoice_items>>

\* UPDATE units SET daily_rate = ? WHERE id = ?
update_unit_rate(unit_id, daily_rate) ==
    /\ units' = [i \in 1..Len(units) |->
                    IF i = unit_id THEN [units[i] EXCEPT !.daily_rate = daily_rate]
                    ELSE units[i]]
    /\ lastGen' = NoGen
    /\ UNCHANGED <<auth, txns, tenants, occupancies, invoices, invoice_items>>

add_tenant(name) ==
    /\ Len(tenants) < MaxTenants
    /\ tenants' = Append(tenants, [name |-> name])
    /\ lastGen' = NoGen
    /\ UNCHANGED <<auth, txns, units, occupancies, invoices, invoice_items>>

\* (mutant) the rename is also written to the stored invoice items
edit_unit_submit_renames_items(user, unit_id, name, daily_rate) ==
    /\ user # NULL /\ unit_id \in 1..Len(units)
    /\ \A i \in 1..Len(units) : units[i].name # name
    /\ units' = [units EXCEPT ![unit_id].daily_rate = daily_rate,
                              ![unit_id].name = name]
    /\ invoice_items' = [k \in 1..Len(invoice_items) |->
                            IF invoice_items[k].unit_name = units[unit_id].name
                            THEN [invoice_items[k] EXCEPT !.unit_name = name]
                            ELSE invoice_items[k]]
    /\ lastGen' = NoGen
    /\ UNCHANGED <<auth, txns, tenants, occupancies, invoices>>

\* POST /units/edit/{unit_id}: update_unit_rate commits the rate, then a
\* second connection runs UPDATE units SET name = ?, which UNIQUE(name)
\* rejects (sqlite3.IntegrityError) when another unit has that name
edit_unit_submit(user, unit_id, name, daily_rate) ==
    /\ IF user = NULL
       THEN UNCHANGED units
       ELSE LET rated == [i \in 1..Len(units) |->
                            IF i = unit_id
                            THEN [units[i] EXCEPT !.daily_rate = daily_rate]
                            ELSE units[i]]
            IN  IF \E i \in 1..Len(units) : i # unit_id /\ units[i].name = name
                   /\ unit_id \in 1..Len(units)
                THEN units' = rated
                ELSE units' = [i \in 1..Len(units) |->
                                  IF i = unit_id
                                  THEN [rated[i] EXCEPT !.name = name]
                                  ELSE rated[i]]
    /\ lastGen' = NoGen
    /\ UNCHANGED <<auth, txns, tenants, occupancies, invoices, invoice_items>>

\* (mutant) a check-in closes the unit's open occupancies
assign_unit_closes_open(unit_id, tenant_id, start) ==
    /\ IF unit_id \in 1..Len(units)
       THEN occupancies' =
               Append([k \in 1..Len(occupancies) |->
                          IF occupancies[k].unit_id = unit_id
                             /\ occupancies[k].end_date = NULL
                          THEN [occupancies[k] EXCEPT !.end_date = start]
                          ELSE occupancies[k]],
                      [unit_id |-> unit_id,
                       tenant_id |-> tenant_id,
                       start_date |-> start,
                       end_date |-> NULL,
                       daily_rate |-> units[unit_id].daily_rate])
       ELSE UNCHANGED occupancies
    /\ lastGen' = NoGen
    /\ UNCHANGED <<auth, txns, units, tenants, invoices, invoice_items>>

\* SELECT daily_rate FROM units WHERE id = ? finds no row
assign_unit_error(U, unit_id) ==
    IF unit_id \in 1..Len(U) THEN "none" ELSE "ValueError"

\* (mutant) the occupancy is inserted whether or not the unit exists
assign_unit_unchecked(unit_id, tenant_id, start) ==
    /\ occupancies' = Append(occupancies,
                             [unit_id |-> unit_id,
                              tenant_id |-> tenant_id,
                              start_date |-> start,
                              end_date |-> NULL,
                              daily_rate |-> IF unit_id \in 1..Len(units)
                                             THEN units[unit_id].daily_rate
                                             ELSE 0])
    /\ lastGen' = NoGen
    /\ UNCHANGED <<auth, txns, units, tenants, invoices, invoice_items>>

\* assign_unit: "Unit not found" when the unit row is missing; no other check
assign_unit(unit_id, tenant_id, start) ==
    /\ IF assign_unit_error(units, unit_id) = "none"
       THEN occupancies' = Append(occupancies,
                                  [unit_id |-> unit_id,
                                   tenant_id |-> tenant_id,
                                   start_date |-> start,
                                   end_date |-> NULL,
                                   daily_rate |-> units[unit_id].daily_rate])
       ELSE UNCHANGED occupancies
    /\ lastGen' = NoGen
    /\ UNCHANGED <<auth, txns, units, tenants, invoices, invoice_items>>

\* end_occupancy: UPDATE ... SET end_date = ? WHERE id = ?
end_occupancy(occupancy_id, end) ==
    /\ occupancies' = [i \in 1..Len(occupancies) |->
                          IF i = occupancy_id
                          THEN [occupancies[i] EXCEPT !.end_date = end]
                          ELSE occupancies[i]]
    /\ lastGen' = NoGen
    /\ UNCHANGED <<auth, txns, units, tenants, invoices, invoice_items>>

\* whether create_invoices(y, m) is about to regenerate a paid invoice
regenerates_paid(y, m) ==
    \E i \in 1..Len(invoices) :
        /\ invoices[i].year = y /\ invoices[i].month = m
        /\ invoices[i].status = "paid"
        /\ billing_index(compute_billing(y, m), invoices[i].tenant_id) # 0

\* the tables after create_invoices: nothing is written when compute_billing
\* raises
create_invoices_tables(y, m, now) ==
    IF compute_billing_error(y, m) = "none"
    THEN LET db == create_invoices_db(y, m, now)
         IN  invoices' = db.invoices /\ invoice_items' = db.invoice_items
    ELSE UNCHANGED <<invoices, invoice_items>>

create_invoices(y, m, now) ==
    /\ create_invoices_tables(y, m, now)
    /\ lastGen' = [op |-> "create_invoices", year |-> y, month |-> m,
                   again |-> (lastGen.op = "create_invoices"
                              /\ lastGen.year = y /\ lastGen.month = m),
                   paid |-> regenerates_paid(y, m), token |-> 0]
    /\ UNCHANGED <<auth, txns, units, tenants, occupancies>>

\* a query parameter: NULL when it is absent, <<v>> when it is the integer v
param_or(param, default) ==
    IF param = NULL \/ param[1] = 0 THEN default ELSE param[1]

\* what lastGen keeps of a query parameter (-1 when it is absent)
param_asked(param) == IF param = NULL THEN -1 ELSE param[1]

\* GET /invoices/generate: user is what get_current_user returned; lastGen
\* keeps the year and month that were asked for
generate_invoices_endpoint(user, year, month, today_date, now) ==
    LET gen_year == param_or(year, today_date[1])
        gen_month == param_or(month, today_date[2])
    IN  /\ IF user = NULL
           THEN UNCHANGED <<invoices, invoice_items>>
           ELSE create_invoices_tables(gen_year, gen_month, now)
        /\ lastGen' = [op |-> "generate_invoices_endpoint",
                       year |-> param_asked(year), month |-> param_asked(month),
                       again |-> FALSE, paid |-> FALSE, token |-> 0]
        /\ UNCHANGED <<auth, txns, units, tenants, occupancies>>

\* (mutant) the payment sets the status and no timestamp
pay_invoice_status_only(invoice_id, now) ==
    /\ invoices' = [i \in 1..Len(invoices) |->
                       IF i = invoice_id
                       THEN [invoices[i] EXCEPT !.status = "paid"]
                       ELSE invoices[i]]
    /\ lastGen' = NoGen
    /\ UNCHANGED <<auth, txns, units, tenants, occupancies, invoice_items>>

\* pay_invoice_endpoint: UPDATE invoices SET status = 'paid', paid_at = ?
pay_invoice(invoice_id, now) ==
    /\ invoices' = [i \in 1..Len(invoices) |->
                       IF i = invoice_id
                       THEN [invoices[i] EXCEPT !.status = "paid", !.paid_at = now]
                       ELSE invoices[i]]
    /\ lastGen' = NoGen
    /\ UNCHANGED <<auth, txns, units, tenants, occupancies, invoice_items>>

----------------------------------------------------------------------------
(* create_invoices statement by statement.  Each run has a connection of
   its own: its statements after the first write belong to one transaction
   that conn.commit() ends, other connections read the committed tables,
   and one connection at a time holds the database's write lock. *)

\* the committed tables
committed_db == [invoices |-> invoices, invoice_items |-> invoice_items]

\* the tables as w's connection reads them
txn_view(w) == IF txns[w].dirty THEN txns[w].db ELSE committed_db

\* another connection holds the write lock
write_blocked(w) == \E v \in Writers \ {w} : txns[v].dirty

\* (mutant) every statement is committed as it is executed
visible_after_autocommit(committed, written) == written

\* what other connections read after a statement of an open transaction
visible_after(committed, written) == committed

\* w's connection has executed a write that left the tables as db
txn_write(w, db, pc, invoice_id) ==
    /\ txns' = [txns EXCEPT ![w].db = db, ![w].dirty = TRUE, ![w].pc = pc,
                            ![w].invoice_id = invoice_id]
    /\ LET seen == visible_after(committed_db, db)
       IN  invoices' = seen.invoices /\ invoice_items' = seen.invoice_items
    /\ lastGen' = NoGen
    /\ UNCHANGED <<auth, units, tenants, occupancies>>

\* an exception leaves create_invoices: the connection is dropped without a
\* commit and its transaction is rolled back
txn_raise(w, error) ==
    /\ txns' = [txns EXCEPT ![w] = [NoTxn EXCEPT !.error = error]]
    /\ lastGen' = NoGen
    /\ UNCHANGED <<auth, units, tenants, occupancies, invoices, invoice_items>>

\* billing_data = compute_billing(year, month), on a connection of its own
begin_create_invoices(w, y, m, now) ==
    /\ txns[w].pc = "idle"
    /\ IF compute_billing_error(y, m) # "none"
       THEN txns' = [txns EXCEPT ![w] = [NoTxn EXCEPT !.error = "ValueError"]]
       ELSE LET billing == compute_billing(y, m)
            IN  txns' = [txns EXCEPT ![w] =
                            [NoTxn EXCEPT !.pc = IF billing = <<>> THEN "commit"
                                                 ELSE "select",
                                          !.year = y, !.month = m, !.now = now,
                                          !.billing = billing]]
    /\ lastGen' = NoGen
    /\ UNCHANGED <<auth, units, tenants, occupancies, invoices, invoice_items>>

\* SELECT id FROM invoices WHERE tenant_id = ? AND year = ? AND month = ?
select_invoice(w) ==
    /\ txns[w].pc = "select"
    /\ LET row == invoice_index(txn_view(w).invoices,
                                Head(txns[w].billing).tenant_id,
                                txns[w].year, txns[w].month)
       IN  txns' = [txns EXCEPT ![w].row = row,
                               ![w].pc = IF row # 0 THEN "delete" ELSE "insert"]
    /\ lastGen' = NoGen
    /\ UNCHANGED <<auth, units, tenants, occupancies, invoices, invoice_items>>

\* DELETE FROM invoice_items WHERE invoice_id = ?
delete_invoice_items(w) ==
    /\ txns[w].pc = "delete"
    /\ ~write_blocked(w)
    /\ LET db == txn_view(w)
       IN  txn_write(w, [db EXCEPT !.invoice_items =
                                      delete_items(db.invoice_items, txns[w].row)],
                     "update", txns[w].row)

\* UPDATE invoices SET total_amount = ?, status = 'pending', ...
update_invoice(w) ==
    /\ txns[w].pc = "update"
    /\ LET db == txn_view(w)
       IN  txn_write(w, [db EXCEPT !.invoices =
                                      IF txns[w].row \in 1..Len(db.invoices)
                                      THEN update_invoice_header(
                                               db.invoices, txns[w].row,
                                               Head(txns[w].billing).total,
                                               txns[w].now)
                                      ELSE db.invoices],
                     "items", txns[w].row)

\* INSERT INTO invoices: UNIQUE(tenant_id, year, month) raises
\* sqlite3.IntegrityError when the tables hold an invoice of that key
insert_invoice(w) ==
    /\ txns[w].pc = "insert"
    /\ ~write_blocked(w)
    /\ LET db == txn_view(w)
           data == Head(txns[w].billing)
       IN  IF invoice_index(db.invoices, data.tenant_id,
                            txns[w].year, txns[w].month) # 0
           THEN txn_raise(w, "IntegrityError")
           ELSE txn_write(w, [db EXCEPT !.invoices =
                                           insert_invoice_header(
                                               db.invoices, data.tenant_id,
                                               txns[w].year, txns[w].month,
                                               data.total, txns[w].now)],
                          "items", Len(db.invoices) + 1)

\* the loop of INSERT INTO invoice_items for one tenant
insert_invoice_items(w) ==
    /\ txns[w].pc = "items"
    /\ LET db == txn_view(w)
           data == Head(txns[w].billing)
       IN  /\ txns' = [txns EXCEPT
                          ![w].db = [db EXCEPT !.invoice_items =
                                        db.invoice_items
                                          \o item_rows(txns[w].invoice_id,
                                                       data.items)],
                          ![w].billing = Tail(txns[w].billing),
                          ![w].pc = IF Tail(txns[w].billing) = <<>>
                                    THEN "commit" ELSE "select"]
           /\ LET seen == visible_after(committed_db, txns'[w].db)
              IN  invoices' = seen.invoices /\ invoice_items' = seen.invoice_items
    /\ lastGen' = NoGen
    /\ UNCHANGED <<auth, units, tenants, occupancies>>

\* conn.commit()
commit_invoices(w) ==
    /\ txns[w].pc = "commit"
    /\ LET db == txn_view(w)
       IN  invoices' = db.invoices /\ invoice_items' = db.invoice_items
    /\ txns' = [txns EXCEPT ![w] = NoTxn]
    /\ lastGen' = NoGen
    /\ UNCHANGED <<auth, units, tenants, occupancies>>

\* the first write waits for the write lock; sqlite3.connect's default
\* timeout ends the wait with OperationalError("database is locked")
busy_timeout(w) ==
    /\ txns[w].pc \in {"delete", "insert"}
    /\ write_blocked(w)
    /\ txn_raise(w, "OperationalError")

\* a statement of the run fails (persistence failure)
fail_create_invoices(w) ==
    /\ txns[w].pc \in {"select", "delete", "update", "insert", "items", "commit"}
    /\ txn_raise(w, "failure")

----------------------------------------------------------------------------
(* Sessions.  A session token is a positive number, 0 stands for a request
   without the session_token cookie; the clock counts hours. *)

\* timedelta(hours=12)
SessionHours == 12

\* hashlib.sha256(password.encode()).hexdigest()
hash_password(password) == <<"sha256", password>>

verify_password(password, password_hash) ==
    hash_password(password) = password_hash

\* the users table: create_default_admin's row
users == <<[username |-> "admin",
            password_hash |-> hash_password("admin123"),
            role |-> "admin"]>>

\* get_user_by_username: the row's id, 0 when there is none
get_user_by_username(username) ==
    IF \E i \in 1..Len(users) : users[i].username = username
    THEN CHOOSE i \in 1..Len(users) : users[i].username = username
    ELSE 0

\* secrets.token_hex(16): a token that was never issued before
new_token == Len(login_records) + 1

\* (mutant) a session is still valid at the instant of its expiry
get_current_user_late(S, token, now) ==
    IF token = 0 THEN NULL
    ELSE IF token \notin DOMAIN S THEN NULL
    ELSE IF S[token].expiry < now THEN NULL
    ELSE S[token].user

\* what get_current_user returns for a request that carries token
get_current_user(S, token, now) ==
    IF token = 0 THEN NULL
    ELSE IF token \notin DOMAIN S THEN NULL
    ELSE IF S[token].expiry <= now THEN NULL
    ELSE S[token].user

\* the session store after get_current_user: an expired session is popped
sessions_read(S, token, now) ==
    IF token # 0 /\ token \in DOMAIN S /\ S[token].expiry <= now
    THEN [t \in DOMAIN S \ {token} |-> S[t]]
    ELSE S

\* if not user: return RedirectResponse(url="/login"); lastGen keeps the
\* token of the request that was turned away
redirect_login(token) ==
    /\ sessions' = sessions_read(sessions, token, clock)
    /\ lastGen' = [NoGen EXCEPT !.op = "redirect_login", !.token = token]
    /\ UNCHANGED <<clock, login_records, txns, units, tenants, occupancies,
                   invoices, invoice_items>>

\* (mutant) the route does not look at the session
authenticated_unchecked(token, handler) == handler

\* user = get_current_user(request); if not user: redirect; else the
\* route's handler runs
authenticated(token, handler) ==
    IF get_current_user(sessions, token, clock) = NULL
    THEN redirect_login(token)
    ELSE handler

\* time passes
tick(hours) ==
    /\ clock' = clock + hours
    /\ lastGen' = NoGen
    /\ UNCHANGED <<sessions, login_records, txns, units, tenants, occupancies,
                   invoices, invoice_items>>

\* POST /login
login_submit(username, password) ==
    LET user == get_user_by_username(username)
    IN  /\ IF user # 0 /\ verify_password(password, users[user].password_hash)
           THEN /\ sessions' =
                      [t \in DOMAIN sessions \cup {new_token} |->
                          IF t = new_token
                          THEN [user |-> <<users[user].username>>,
                                expiry |-> clock + SessionHours]
                          ELSE sessions[t]]
                /\ login_records' = Append(login_records,
                                           [user_id |-> user,
                                            login_time |-> clock])
           ELSE UNCHANGED <<sessions, login_records>>
        /\ lastGen' = NoGen
        /\ UNCHANGED <<clock, txns, units, tenants, occupancies, invoices,
                       invoice_items>>

\* GET /logout
logout(token) ==
    /\ IF token # 0 /\ token \in DOMAIN sessions
       THEN sessions' = [t \in DOMAIN sessions \ {token} |-> sessions[t]]
       ELSE UNCHANGED sessions
    /\ lastGen' = NoGen
    /\ UNCHANGED <<clock, login_records, txns, units, tenants, occupancies,
                   invoices, invoice_items>>

\* the routes that write, each behind get_current_user
add_unit_submit(token, name, daily_rate) ==
    authenticated(token, add_unit(name, daily_rate))

add_tenant_submit(token, name) ==
    authenticated(token, add_tenant(name))

add_occupancy_submit(token, unit_id, tenant_id, start) ==
    authenticated(token, assign_unit(unit_id, tenant_id, start))

end_occupancy_endpoint(token, occupancy_id, today_date) ==
    authenticated(token, end_occupancy(occupancy_id, today_date))

pay_invoice_endpoint(token, invoice_id) ==
    authenticated(token, pay_invoice(invoice_id, <<clock>>))

\* edit_unit_submit and generate_invoices_endpoint for a request that
\* carries token
edit_unit_request(token, unit_id, name, daily_rate) ==
    authenticated(token,
                  edit_unit_submit(get_current_user(sessions, token, clock),
                                   unit_id, name, daily_rate))

generate_invoices_request(token, year, month, today_date) ==
    authenticated(token,
                  generate_invoices_endpoint(
                      get_current_user(sessions, token, clock),
                      year, month, today_date, <<clock>>))

----------------------------------------------------------------------------
(* SpecStore: units, tenants and occupancies, from the empty database *)

StoreUnitNames == {"U1", "U2"}
StoreRates == {10, 20}
StoreStarts == {<<2024, 2, 1>>}
StoreEnds == {<<2024, 2, 15>>}
\* tenant ids given to assign_unit (a tenant row need not exist: foreign
\* keys are not enforced) and occupancies that are checked out
StoreTenantIds == 1..2
StoreCheckouts == 1..2

NextStore ==
    \/ \E n \in StoreUnitNames, r \in StoreRates : add_unit(n, r)
    \/ \E u \in 1..Cardinality(StoreUnitNames), r \in StoreRates :
          update_unit_rate(u, r)
    \/ \E n \in {"T1"} : add_tenant(n)
    \/ \E u \in 1..Cardinality(StoreUnitNames), t \in StoreTenantIds,
          d \in StoreStarts :
          Len(occupancies) < MaxOccupancies /\ assign_unit(u, t, d)
    \/ \E o \in StoreCheckouts, d \in StoreEnds : end_occupancy(o, d)

SpecStore == Init /\ [][NextStore]_vars

----------------------------------------------------------------------------
(* SpecDates: one unit and one tenant, occupancies over many dates *)

Dates == {<<2024, 1, 31>>, <<2024, 2, 1>>, <<2024, 2, 15>>, <<2024, 2, 16>>,
          <<2024, 2, 29>>, <<2024, 3, 1>>, <<2024, 12, 31>>}

NextDates ==
    \/ add_unit("U1", 10)
    \/ add_tenant("T1")
    \/ \E d \in Dates :
          Len(occupancies) < MaxDatedOccupancies /\ assign_unit(1, 1, d)
    \/ \E o \in 1..MaxDatedOccupancies, d \in Dates : end_occupancy(o, d)

SpecDates == Init /\ [][NextDates]_vars

----------------------------------------------------------------------------
(* Spec: invoicing, from a database that holds two units and two tenants *)

\* values of datetime.utcnow() (logical instants)
Timestamps == {<<1>>, <<2>>}
InvoicedPeriods == {<<2024, 2>>}
InvoicedStarts == {<<2024, 2, 1>>}
InvoicedEnds == {<<2024, 2, 15>>}

InitInvoicing ==
    /\ units = <<[name |-> "U1", daily_rate |-> 10],
                 [name |-> "U2", daily_rate |-> 20]>>
    /\ tenants = <<[name |-> "T1"], [name |-> "T2"]>>
    /\ occupancies = <<>>
    /\ invoices = <<>>
    /\ invoice_items = <<>>
    /\ lastGen = NoGen
    /\ txns = [w \in Writers |-> NoTxn]
    /\ sessions = NoSessions
    /\ clock = 0
    /\ login_records = <<>>

Next ==
    \/ \E u \in 1..2, t \in 1..2, d \in InvoicedStarts :
          Len(occupancies) < MaxInvoicedOccupancies /\ assign_unit(u, t, d)
    \/ \E o \in 1..MaxInvoicedOccupancies, d \in InvoicedEnds : end_occupancy(o, d)
    \/ \E p \in InvoicedPeriods, now \in Timestamps :
          create_invoices(p[1], p[2], now)
    \/ \E i \in 1..2, now \in Timestamps : pay_invoice(i, now)

Spec == InitInvoicing /\ [][Next]_vars

----------------------------------------------------------------------------
(* SpecPeriods: invoicing of two periods, one unit in use *)

\* only the first occupancy is checked out
PeriodCheckouts == {1}

NextPeriods ==
    \/ \E t \in 1..2, d \in InvoicedStarts :
          Len(occupancies) < MaxPeriodOccupancies /\ assign_unit(1, t, d)
    \/ \E o \in PeriodCheckouts, d \in InvoicedEnds : end_occupancy(o, d)
    \/ \E p \in GenPeriods : create_invoices(p[1], p[2], <<1>>)
    \/ \E i \in 1..(2 * Cardinality(GenPeriods)) : pay_invoice(i, <<2>>)

SpecPeriods == InitInvoicing /\ [][NextPeriods]_vars

----------------------------------------------------------------------------
(* SpecMonths: invoice generation asked for valid and invalid months *)

MaxMonthOccupancies == 2
\* months passed to create_invoices, and the month parameter of the endpoint
AskedMonths == {0, 2, 13}
AskedParams == {NULL, <<0>>, <<2>>, <<13>>}
AskedYears == {NULL, <<2024>>}
Users == {NULL, <<"admin">>}
\* values of date.today()
Todays == {<<2024, 2, 10>>}

NextMonths ==
    \/ \E u \in 1..2, t \in 1..2, d \in InvoicedStarts :
          Len(occupancies) < MaxMonthOccupancies /\ assign_unit(u, t, d)
    \/ \E m \in AskedMonths : create_invoices(2024, m, <<1>>)
    \/ \E user \in Users, y \in AskedYears, m \in AskedParams, today \in Todays :
          generate_invoices_endpoint(user, y, m, today, <<2>>)

SpecMonths == InitInvoicing /\ [][NextMonths]_vars

----------------------------------------------------------------------------
(* SpecTxn: two processes run create_invoices for the same period *)

MaxTxnOccupancies == 2
\* the timestamp each run reads from datetime.utcnow()
TxnNow(w) == IF w = "w1" THEN <<1>> ELSE <<2>>

NextTxn ==
    \/ \E t \in 1..2, d \in InvoicedStarts :
          Len(occupancies) < MaxTxnOccupancies /\ assign_unit(1, t, d)
    \/ \E w \in Writers, p \in InvoicedPeriods :
          begin_create_invoices(w, p[1], p[2], TxnNow(w))
    \/ \E w \in Writers : select_invoice(w)
    \/ \E w \in Writers : delete_invoice_items(w)
    \/ \E w \in Writers : update_invoice(w)
    \/ \E w \in Writers : insert_invoice(w)
    \/ \E w \in Writers : insert_invoice_items(w)
    \/ \E w \in Writers : commit_invoices(w)
    \/ \E w \in Writers : busy_timeout(w)
    \/ \E w \in Writers : fail_create_invoices(w)

SpecTxn == InitInvoicing /\ [][NextTxn]_vars

----------------------------------------------------------------------------
(* SpecScenario: the units, tenant and dates of the February 2024 example,
   from the empty database *)

MaxScenarioOccupancies == 2
ScenarioUnits == {[name |-> "U1", daily_rate |-> 10],
                  [name |-> "U2", daily_rate |-> 20]}
ScenarioStarts == {<<2024, 2, 1>>, <<2024, 2, 15>>}
ScenarioEnds == {<<2024, 2, 20>>}

NextScenario ==
    \/ \E u \in ScenarioUnits : add_unit(u.name, u.daily_rate)
    \/ add_tenant("T1")
    \/ \E u \in 1..Cardinality(ScenarioUnits), d \in ScenarioStarts :
          Len(occupancies) < MaxScenarioOccupancies /\ assign_unit(u, 1, d)
    \/ \E o \in 1..2, d \in ScenarioEnds : end_occupancy(o, d)

SpecScenario == Init /\ [][NextScenario]_vars

----------------------------------------------------------------------------
(* SpecEdit: units are renamed and repriced while invoices are generated
   and paid *)

MaxEditOccupancies == 2
EditNames == {"U1", "U2", "U3"}
EditRates == {10, 30}

NextEdit ==
    \/ \E u \in 1..2, d \in InvoicedStarts :
          Len(occupancies) < MaxEditOccupancies /\ assign_unit(u, 1, d)
    \/ \E d \in InvoicedEnds : end_occupancy(1, d)
    \/ \E r \in EditRates : update_unit_rate(1, r)
    \/ \E user \in Users, n \in EditNames, r \in EditRates :
          edit_unit_submit(user, 1, n, r)
    \/ \E p \in InvoicedPeriods : create_invoices(p[1], p[2], <<1>>)
    \/ pay_invoice(1, <<2>>)

SpecEdit == InitInvoicing /\ [][NextEdit]_vars

----------------------------------------------------------------------------
(* SpecAuth: logins, logouts and requests as time passes *)

MaxLogins == 2
MaxClock == 18
ClockSteps == {6}
LoginNames == {"admin", "guest"}
LoginPasswords == {"admin123", "letmein"}
\* the session_token cookie of a request: none (0), a token that is or will
\* be issued, or one that never is
RequestTokens == 0..(MaxLogins + 1)

NextAuth ==
    \/ \E h \in ClockSteps : clock + h <= MaxClock /\ tick(h)
    \/ \E u \in LoginNames, pw \in LoginPasswords :
          Len(login_records) < MaxLogins /\ login_submit(u, pw)
    \/ \E token \in RequestTokens : logout(token)
    \/ \E token \in RequestTokens : add_tenant_submit(token, "T1")

SpecAuth == Init /\ [][NextAuth]_vars

----------------------------------------------------------------------------
(* SpecRoutes: the routes that write, requested with and without a valid
   session *)

MaxRouteOccupancies == 1
RouteClockSteps == {12}
RouteTokens == 0..MaxLogins

NextRoutes ==
    \/ \E h \in RouteClockSteps : clock + h <= MaxClock /\ tick(h)
    \/ Len(login_records) < MaxLogins /\ login_submit("admin", "admin123")
    \/ \E token \in RouteTokens : add_unit_submit(token, "U1", 10)
    \/ \E token \in RouteTokens : edit_unit_request(token, 1, "U3", 30)
    \/ \E token \in RouteTokens : add_tenant_submit(token, "T1")
    \/ \E token \in RouteTokens, d \in InvoicedStarts :
          /\ Len(occupancies) < MaxRouteOccupancies
          /\ add_occupancy_submit(token, 1, 1, d)
    \/ \E token \in RouteTokens, d \in InvoicedEnds :
          end_occupancy_endpoint(token, 1, d)
    \/ \E token \in RouteTokens, today \in Todays :
          generate_invoices_request(token, NULL, NULL, today)
    \/ \E token \in RouteTokens : pay_invoice_endpoint(token, 1)

SpecRoutes == Init /\ [][NextRoutes]_vars

----------------------------------------------------------------------------
(* Properties of the proration (SpecDates) *)

\* the calendar days (as ordinals) an occupancy shares with a month, a null
\* end_date standing for the month's last day
OverlapDays(o, y, m) ==
    LET until == IF o.end_date = NULL THEN last_day(y, m) ELSE o.end_date
    IN  {n \in toordinal(first_day(y, m))..toordinal(last_day(y, m)) :
            toordinal(o.start_date) <= n /\ n <= toordinal(until)}

\* the line items of all tenants, in the order of the records
RECURSIVE AllItems(_)
AllItems(billing) ==
    IF billing = <<>> THEN <<>> ELSE Head(billing).items \o AllItems(Tail(billing))

InvalidRange(o) == o.end_date # NULL /\ ~date_le(o.start_date, o.end_date)

\* C1: the days charged for every billed occupancy are the number of
\* calendar days its inclusive interval shares with the month (null end =
\* month's last day), and 0, never negative, when they share none.
\* SpecDates has one tenant, so item j is the item of the j-th record.
C1_DaysAreInclusiveOverlap ==
    \A p \in BillPeriods :
        LET ids == billing_ids(p[1], p[2])
            items == AllItems(compute_billing(p[1], p[2]))
        IN  /\ Len(items) = Len(ids)
            /\ \A j \in 1..Len(ids) :
                  items[j].days =
                      Cardinality(OverlapDays(occupancies[ids[j]], p[1], p[2]))

\* C3: an occupancy entirely before or entirely after the month produces
\* no line item, and every line item has at least one day.
C3_NoItemWithoutOverlap ==
    \A p \in BillPeriods :
        LET ids == billing_ids(p[1], p[2])
            items == AllItems(compute_billing(p[1], p[2]))
        IN  /\ \A j \in 1..Len(ids) :
                  LET o == occupancies[ids[j]]
                  IN  /\ ~(o.end_date # NULL
                           /\ ~date_le(first_day(p[1], p[2]), o.end_date))
                      /\ date_le(o.start_date, last_day(p[1], p[2]))
            /\ \A j \in 1..Len(items) : items[j].days >= 1

\* C9: every occupancy with an end_date has end_date >= start_date.
C9_EndNotBeforeStart ==
    \A k \in 1..Len(occupancies) : ~InvalidRange(occupancies[k])

\* C10: billing a month that selects an occupancy whose end_date precedes
\* its start_date fails with an invalid-range error.
C10_InvalidRangeRejected ==
    \A p \in BillPeriods :
        LET ids == billing_ids(p[1], p[2])
        IN  (\E j \in 1..Len(ids) : InvalidRange(occupancies[ids[j]]))
                => compute_billing_error(p[1], p[2]) = "InvalidRangeError"

----------------------------------------------------------------------------
(* Properties of the occupancy store (SpecStore) *)

\* C8: each unit has at most one occupancy whose end_date is null.
C8_OneOpenOccupancyPerUnit ==
    \A u \in 1..Len(units) :
        Cardinality({k \in 1..Len(occupancies) :
                        occupancies[k].unit_id = u
                        /\ occupancies[k].end_date = NULL}) <= 1

\* the billed occupancies of tenant t, in record order
RECURSIVE TenantIds(_, _)
TenantIds(ids, t) ==
    IF ids = <<>> THEN <<>>
    ELSE (IF occupancies[Head(ids)].tenant_id = t THEN <<Head(ids)>> ELSE <<>>)
            \o TenantIds(Tail(ids), t)

RECURSIVE SumCharges(_)
SumCharges(items) ==
    IF items = <<>> THEN 0 ELSE Head(items).charge + SumCharges(Tail(items))

\* C2: in every billing result each tenant has one entry, with one line
\* item per billed occupancy of that tenant; each item's charge is its days
\* times the daily_rate stored on the occupancy, and the entry's total is
\* the sum of its items' charges.
C2_ChargesAndTotals ==
    \A p \in BillPeriods :
        LET billing == compute_billing(p[1], p[2])
            ids == billing_ids(p[1], p[2])
        IN  /\ \A i, j \in 1..Len(billing) :
                  billing[i].tenant_id = billing[j].tenant_id => i = j
            /\ \A j \in 1..Len(ids) : \E i \in 1..Len(billing) :
                  billing[i].tenant_id = occupancies[ids[j]].tenant_id
            /\ \A i \in 1..Len(billing) :
                  LET e == billing[i]
                      mine == TenantIds(ids, e.tenant_id)
                  IN  /\ Len(e.items) = Len(mine)
                      /\ \A k \in 1..Len(mine) :
                            /\ e.items[k].daily_rate = occupancies[mine[k]].daily_rate
                            /\ e.items[k].charge =
                                  e.items[k].days * occupancies[mine[k]].daily_rate
                      /\ e.total = SumCharges(e.items)

\* a tenant is billed two items at different rates, one of them for an
\* occupancy whose unit has changed its rate since
C2_Witness ==
    \E p \in BillPeriods :
        LET billing == compute_billing(p[1], p[2])
            ids == billing_ids(p[1], p[2])
        IN  \E i \in 1..Len(billing) :
              /\ Len(billing[i].items) >= 2
              /\ billing[i].items[1].daily_rate # billing[i].items[2].daily_rate
              /\ billing[i].total = billing[i].items[1].charge
                                      + billing[i].items[2].charge
              /\ \E k \in 1..Len(ids) :
                    /\ occupancies[ids[k]].tenant_id = billing[i].tenant_id
                    /\ occupancies[ids[k]].daily_rate
                          # units[occupancies[ids[k]].unit_id].daily_rate

\* C7: a step that changes a unit's rate leaves every occupancy, and the
\* billing of every month, as it was; a step that adds an occupancy gives it
\* the rate its unit has at that moment and changes no other occupancy.
C7_RateChangeKeepsHistory ==
    [][/\ (Len(units') = Len(units) /\ units' # units) =>
            /\ occupancies' = occupancies
            /\ \A p \in BillPeriods :
                  compute_billing_of(units', tenants', occupancies', p[1], p[2])
                      = compute_billing(p[1], p[2])
       /\ (Len(occupancies') = Len(occupancies) + 1) =>
            /\ SubSeq(occupancies', 1, Len(occupancies)) = occupancies
            /\ LET o == occupancies'[Len(occupancies')]
               IN  o.daily_rate = units[o.unit_id].daily_rate
      ]_vars

\* a billed occupancy carries a rate that its unit no longer has
C7_Witness ==
    \E p \in BillPeriods :
        LET ids == billing_ids(p[1], p[2])
        IN  \E k \in 1..Len(ids) :
              occupancies[ids[k]].daily_rate
                  # units[occupancies[ids[k]].unit_id].daily_rate

----------------------------------------------------------------------------
(* Properties of invoicing (Spec, SpecPeriods) *)

\* the line items stored for an invoice, in row order
StoredItems(rows, invoice_id) ==
    LET mine == SelectSeq(rows, LAMBDA r : r.invoice_id = invoice_id)
    IN  [k \in 1..Len(mine) |-> [unit_name |-> mine[k].unit_name,
                                 days |-> mine[k].days,
                                 daily_rate |-> mine[k].daily_rate,
                                 amount |-> mine[k].amount]]

\* the invoices without their creation timestamp, each with its items
InvoiceView(invs, rows) ==
    {[tenant_id |-> invs[i].tenant_id,
      year |-> invs[i].year,
      month |-> invs[i].month,
      total_amount |-> invs[i].total_amount,
      status |-> invs[i].status,
      paid_at |-> invs[i].paid_at,
      items |-> StoredItems(rows, i)] : i \in 1..Len(invs)}

\* C4: a create_invoices(year, month) that directly follows a
\* create_invoices of the same period leaves the same invoices, with the
\* same totals, statuses and line items; only created_at may differ.
C4_RegenerationIdempotent ==
    [][lastGen'.again =>
          /\ Len(invoices') = Len(invoices)
          /\ InvoiceView(invoices', invoice_items')
                = InvoiceView(invoices, invoice_items)
      ]_vars

\* a period was generated twice in a row with two invoices and their items
C4_Witness ==
    /\ lastGen.again
    /\ Len(invoices) >= 2
    /\ \A i \in 1..Len(invoices) : Len(StoredItems(invoice_items, i)) >= 1

\* what create_invoices(y, m) must leave for one entry of the billing
\* result: before are the invoices it found, after and rows the tables it left
UpsertedEntry(data, y, m, before, after, rows) ==
    LET old == {i \in 1..Len(before) :
                  /\ before[i].tenant_id = data.tenant_id
                  /\ before[i].year = y /\ before[i].month = m}
        new == {i \in 1..Len(after) :
                  /\ after[i].tenant_id = data.tenant_id
                  /\ after[i].year = y /\ after[i].month = m}
    IN  /\ Cardinality(new) = 1
        /\ old # {} => new = old
        /\ old = {} => \A i \in new : i > Len(before)
        /\ \A i \in new :
              /\ after[i].status = "pending"
              /\ after[i].paid_at = NULL
              /\ after[i].total_amount = data.total
              /\ StoredItems(rows, i) =
                    [k \in 1..Len(data.items) |->
                        [unit_name |-> data.items[k].unit_name,
                         days |-> data.items[k].days,
                         daily_rate |-> data.items[k].daily_rate,
                         amount |-> data.items[k].charge]]

\* C6: after create_invoices(year, month), every tenant of the billing
\* result has exactly one invoice for the period: the one it had before, or
\* a new one if it had none; its status is pending, its paid_at null, its
\* total the computed total and its items exactly the computed items.
C6_UpsertReplaces ==
    [][\A p \in GenPeriods :
          (/\ lastGen'.op = "create_invoices"
           /\ lastGen'.year = p[1] /\ lastGen'.month = p[2]) =>
              LET billing == compute_billing(p[1], p[2])
              IN  \A e \in 1..Len(billing) :
                    UpsertedEntry(billing[e], p[1], p[2],
                                  invoices, invoices', invoice_items')
      ]_vars

\* create_invoices has just regenerated an invoice that was paid, and no
\* invoice of the period is paid now
C6_Witness ==
    /\ lastGen.op = "create_invoices"
    /\ lastGen.paid
    /\ Len(invoice_items) >= 1
    /\ \A i \in 1..Len(invoices) :
          invoices[i].status = "pending" /\ invoices[i].paid_at = NULL

\* C5: there is at most one invoice per (tenant, year, month); every item
\* row belongs to an existing invoice, and an invoice never holds more
\* items than its tenant has occupancies.
C5_OneInvoicePerKey ==
    /\ \A i, j \in 1..Len(invoices) :
          (/\ invoices[i].tenant_id = invoices[j].tenant_id
           /\ invoices[i].year = invoices[j].year
           /\ invoices[i].month = invoices[j].month) => i = j
    /\ \A r \in 1..Len(invoice_items) :
          invoice_items[r].invoice_id \in 1..Len(invoices)
    /\ \A i \in 1..Len(invoices) :
          Len(StoredItems(invoice_items, i)) <=
              Cardinality({k \in 1..Len(occupancies) :
                              occupancies[k].tenant_id = invoices[i].tenant_id})

\* both tenants hold an invoice for both periods, one of them regenerated
\* after it was paid
C5_Witness ==
    /\ Len(invoices) = 4
    /\ Len(invoice_items) >= 3
    /\ lastGen.paid
    /\ \E i \in 1..Len(invoices) : invoices[i].status = "paid"

----------------------------------------------------------------------------
(* Invalid periods (SpecMonths) *)

\* C11: a call with a month outside 1..12 is rejected before any billing is
\* computed: stored invoices and items stay as they were, whether the month
\* reaches create_invoices directly or through the generate endpoint, and
\* the month is never replaced by another one that is then billed
C11_InvalidMonthRejected ==
    [][(/\ lastGen'.op \in {"create_invoices", "generate_invoices_endpoint"}
        /\ lastGen'.month # -1
        /\ lastGen'.month \notin 1..12)
       => UNCHANGED <<invoices, invoice_items>>]_vars

----------------------------------------------------------------------------
(* Transactions (SpecTxn) *)

\* fetch_invoice: the invoice joined with its tenant, and its items
fetch_invoice(invs, rows, T, invoice_id) ==
    IF invoice_id \in 1..Len(invs) /\ invs[invoice_id].tenant_id \in 1..Len(T)
    THEN [invoice |-> invs[invoice_id],
          items |-> SelectSeq(rows, LAMBDA r : r.invoice_id = invoice_id)]
    ELSE NULL

RECURSIVE SumAmounts(_)
SumAmounts(rows) ==
    IF rows = <<>> THEN 0 ELSE Head(rows).amount + SumAmounts(Tail(rows))

\* every invoice a reader can fetch is whole: it has its items and its
\* total is their sum
ReadsWhole(invs, rows, T) ==
    \A i \in 1..Len(invs) :
        LET got == fetch_invoice(invs, rows, T, i)
        IN  got # NULL => /\ got.items # <<>>
                          /\ got.invoice.total_amount = SumAmounts(got.items)

C13_InterleavedRunsComplete ==
    \A w \in Writers : txns[w].error \notin {"IntegrityError", "OperationalError"}

----------------------------------------------------------------------------
(* Invoices of tenants that are no longer billable (SpecPeriods) *)

\* invoice i and its items are the same before and after
UntouchedInvoice(i, before, after, rows_before, rows_after) ==
    /\ i \in 1..Len(after)
    /\ after[i] = before[i]
    /\ StoredItems(rows_after, i) = StoredItems(rows_before, i)

\* C14: create_invoices(year, month) leaves untouched every stored invoice
\* of that period whose tenant has no billable occupancy in it: the invoice
\* is not deleted and its total, status, paid timestamp and items stay
C14_UnbilledInvoicesUntouched ==
    [][\A p \in GenPeriods :
          (/\ lastGen'.op = "create_invoices"
           /\ lastGen'.year = p[1] /\ lastGen'.month = p[2])
          => LET billing == compute_billing(p[1], p[2])
             IN  \A i \in 1..Len(invoices) :
                    (/\ invoices[i].year = p[1] /\ invoices[i].month = p[2]
                     /\ billing_index(billing, invoices[i].tenant_id) = 0)
                    => UntouchedInvoice(i, invoices, invoices',
                                        invoice_items, invoice_items')]_vars

\* create_invoices has just run for a period in which one tenant is billed
\* and another tenant, who is not billable any more, keeps a paid invoice
C14_Witness ==
    /\ lastGen.op = "create_invoices"
    /\ LET billing == compute_billing(lastGen.year, lastGen.month)
       IN  \E i, j \in 1..Len(invoices) :
              /\ invoices[i].year = lastGen.year /\ invoices[i].month = lastGen.month
              /\ invoices[j].year = lastGen.year /\ invoices[j].month = lastGen.month
              /\ billing_index(billing, invoices[i].tenant_id) = 0
              /\ invoices[i].status = "paid"
              /\ StoredItems(invoice_items, i) # <<>>
              /\ billing_index(billing, invoices[j].tenant_id) # 0

----------------------------------------------------------------------------
(* Tenants of a billing result (SpecDates) *)

\* C15: a tenant is a key of compute_billing(year, month) exactly when at
\* least one of the tenant's occupancies shares a day with the month; every
\* entry has at least one line item and no line item is for zero days
C15_BilledIffOverlap ==
    \A p \in BillPeriods :
        LET billing == compute_billing(p[1], p[2])
        IN  /\ \A t \in 1..Len(tenants) :
                  billing_index(billing, t) # 0
                  <=> \E k \in 1..Len(occupancies) :
                         /\ occupancies[k].tenant_id = t
                         /\ billing_joined(units, tenants, occupancies[k])
                         /\ OverlapDays(occupancies[k], p[1], p[2]) # {}
            /\ \A e \in 1..Len(billing) :
                  /\ billing[e].items # <<>>
                  /\ \A j \in 1..Len(billing[e].items) :
                        billing[e].items[j].days >= 1

----------------------------------------------------------------------------
(* Order of the line items (Spec) *)

\* the fields of line items, whether billing items or stored rows
ItemFields(items, amounts) ==
    [k \in 1..Len(items) |-> [unit_name |-> items[k].unit_name,
                              days |-> items[k].days,
                              daily_rate |-> items[k].daily_rate,
                              amount |-> amounts[k]]]

BillingFields(items) ==
    ItemFields(items, [k \in 1..Len(items) |-> items[k].charge])

RowFields(rows) ==
    ItemFields(rows, [k \in 1..Len(rows) |-> rows[k].amount])

\* the line items of tenant t for the first n occupancies, in the order in
\* which the occupancies were supplied
RECURSIVE ItemsInSuppliedOrder(_, _, _, _, _, _, _)
ItemsInSuppliedOrder(U, T, O, n, t, y, m) ==
    IF n = 0 THEN <<>>
    ELSE ItemsInSuppliedOrder(U, T, O, n - 1, t, y, m)
           \o (IF /\ O[n].tenant_id = t
                  /\ billing_joined(U, T, O[n])
                  /\ billing_where(O[n], y, m)
               THEN BillingFields(<<billing_item(U, O[n], y, m)>>)
               ELSE <<>>)

\* the invoice of (tenant t, y, m) is read back with the items wanted
ReadBackAs(wanted, t, y, m, invs, rows, T) ==
    LET i == invoice_index(invs, t, y, m)
        got == fetch_invoice(invs, rows, T, i)
    IN  /\ i # 0
        /\ got # NULL
        /\ RowFields(got.items) = wanted

\* C16: in each tenant's entry of a billing result, and in the items that
\* create_invoices stores and fetch_invoice reads back, the line items are
\* in the order in which the tenant's occupancies were supplied
C16_ItemsInSuppliedOrder ==
    [][\A p \in InvoicedPeriods :
          LET billing == compute_billing(p[1], p[2])
          IN  \A e \in 1..Len(billing) :
                 LET wanted == ItemsInSuppliedOrder(units, tenants, occupancies,
                                                    Len(occupancies),
                                                    billing[e].tenant_id,
                                                    p[1], p[2])
                 IN  /\ BillingFields(billing[e].items) = wanted
                     /\ (/\ lastGen'.op = "create_invoices"
                         /\ lastGen'.year = p[1] /\ lastGen'.month = p[2])
                        => ReadBackAs(wanted, billing[e].tenant_id, p[1], p[2],
                                      invoices', invoice_items', tenants')]_vars

\* an invoice just generated is read back with two items, the first for
\* unit U2 (occupied first) and the second for unit U1
C16_Witness ==
    /\ lastGen.op = "create_invoices"
    /\ \E i \in 1..Len(invoices) :
          LET got == fetch_invoice(invoices, invoice_items, tenants, i)
          IN  /\ got # NULL
              /\ Len(got.items) = 2
              /\ got.items[1].unit_name = "U2"
              /\ got.items[2].unit_name = "U1"
              /\ occupancies[1].unit_id = 2
              /\ occupancies[1].tenant_id = got.invoice.tenant_id

----------------------------------------------------------------------------
(* The February 2024 example (SpecScenario) *)

\* tenant T1 occupies U1 (rate 10) from 2024-02-01 with no end date and U2
\* (rate 20) from 2024-02-15 to 2024-02-20; there is no other occupancy
ScenarioState ==
    /\ units = <<[name |-> "U1", daily_rate |-> 10],
                 [name |-> "U2", daily_rate |-> 20]>>
    /\ Len(tenants) >= 1 /\ tenants[1].name = "T1"
    /\ occupancies = <<[unit_id |-> 1, tenant_id |-> 1,
                        start_date |-> <<2024, 2, 1>>, end_date |-> NULL,
                        daily_rate |-> 10],
                       [unit_id |-> 2, tenant_id |-> 1,
                        start_date |-> <<2024, 2, 15>>,
                        end_date |-> <<2024, 2, 20>>,
                        daily_rate |-> 20]>>

\* C17: in that state compute_billing(2024, 2) has one entry, for T1, with
\* the items (U1, 29 days, 290) and (U2, 6 days, 120) in that order and the
\* total 410
C17_FebruaryExample ==
    ScenarioState
    => compute_billing(2024, 2) =
          <<[tenant_id |-> 1,
             tenant_name |-> "T1",
             items |-> <<[unit_name |-> "U1", days |-> 29,
                          daily_rate |-> 10, charge |-> 290],
                         [unit_name |-> "U2", days |-> 6,
                          daily_rate |-> 20, charge |-> 120]>>,
             total |-> 410]>>

C17_Witness == ScenarioState /\ Len(compute_billing(2024, 2)) = 1

----------------------------------------------------------------------------
(* Stored invoices and occupancies under edits (SpecEdit) *)

\* C18: renaming a unit or changing its rate leaves every stored invoice
\* and invoice item as it was; the stored unit_name and daily_rate change
\* only when create_invoices runs again
C18_UnitEditKeepsInvoices ==
    [][/\ units' # units => UNCHANGED <<invoices, invoice_items>>
       /\ (\E k \in 1..Len(invoice_items) :
              \/ k > Len(invoice_items')
              \/ invoice_items'[k].unit_name # invoice_items[k].unit_name
              \/ invoice_items'[k].daily_rate # invoice_items[k].daily_rate)
          => lastGen'.op = "create_invoices"]_vars

\* a unit has been renamed and repriced since it was invoiced: a stored
\* item still carries a name no unit has and a rate that is not the
\* unit's rate
C18_Witness ==
    /\ lastGen.op = "other"
    /\ \E k \in 1..Len(invoice_items) :
          /\ \A u \in 1..Len(units) : units[u].name # invoice_items[k].unit_name
          /\ invoice_items[k].unit_name = "U1"
          /\ units[1].daily_rate # invoice_items[k].daily_rate

\* C19: in every state each stored invoice's total_amount is the sum of the
\* amounts of its stored items, and each stored item's amount is its days
\* times its daily_rate
C19_TotalsMatchItems ==
    /\ \A i \in 1..Len(invoices) :
          invoices[i].total_amount =
              SumAmounts(SelectSeq(invoice_items, LAMBDA r : r.invoice_id = i))
    /\ \A k \in 1..Len(invoice_items) :
          invoice_items[k].amount =
              invoice_items[k].days * invoice_items[k].daily_rate

\* a paid invoice with two items, one of them for an occupancy that was
\* checked out and one at a rate set by a rate change
C19_Witness ==
    \E i \in 1..Len(invoices) :
        LET its == StoredItems(invoice_items, i)
        IN  /\ invoices[i].status = "paid"
            /\ Len(its) = 2
            /\ \E k \in 1..2 : its[k].days = 15
            /\ \E k \in 1..2 : its[k].daily_rate = 30
            /\ lastGen.op = "other"

\* C20: an occupancy is never deleted and its unit, tenant, start_date and
\* daily_rate never change; only end_date is ever modified, and only by
\* end_occupancy
C20_OccupanciesImmutable ==
    [][/\ Len(occupancies') >= Len(occupancies)
       /\ \A k \in 1..Len(occupancies) :
             /\ occupancies'[k].unit_id = occupancies[k].unit_id
             /\ occupancies'[k].tenant_id = occupancies[k].tenant_id
             /\ occupancies'[k].start_date = occupancies[k].start_date
             /\ occupancies'[k].daily_rate = occupancies[k].daily_rate
       /\ (\E k \in 1..Len(occupancies) :
              occupancies'[k].end_date # occupancies[k].end_date)
          => \E o \in 1..Len(occupancies) :
                end_occupancy(o, occupancies'[o].end_date)]_vars

\* a checked-out occupancy keeps its rate after its unit was repriced and
\* renamed, invoiced and followed by a second occupancy of the unit
C20_Witness ==
    /\ Len(occupancies) = 2
    /\ occupancies[1].end_date # NULL
    /\ occupancies[2].unit_id = occupancies[1].unit_id
    /\ occupancies[1].daily_rate # units[occupancies[1].unit_id].daily_rate
    /\ units[occupancies[1].unit_id].name = "U3"
    /\ Len(invoices) >= 1

----------------------------------------------------------------------------
(* Status of invoices and frame of invoicing (SpecPeriods) *)

\* C21: every invoice has status pending or paid, and it has a paid
\* timestamp exactly when its status is paid
C21_PaidIffTimestamp ==
    \A i \in 1..Len(invoices) :
        /\ invoices[i].status \in {"pending", "paid"}
        /\ invoices[i].paid_at # NULL <=> invoices[i].status = "paid"

\* one invoice is paid and another, paid before, was regenerated as pending
C21_Witness ==
    /\ lastGen.op = "create_invoices" /\ lastGen.paid
    /\ \E i, j \in 1..Len(invoices) :
          /\ invoices[i].status = "paid" /\ invoices[i].paid_at # NULL
          /\ invoices[j].status = "pending" /\ invoices[j].paid_at = NULL
          /\ invoices[j].year = lastGen.year /\ invoices[j].month = lastGen.month

\* a step changed nothing of the invoices but made invoice i paid
OnlyPaid(i, before, after) ==
    /\ Len(after) = Len(before)
    /\ \A j \in 1..Len(before) : j # i => after[j] = before[j]
    /\ after[i] = [before[i] EXCEPT !.status = "paid",
                                    !.paid_at = after[i].paid_at]

\* C23: create_invoices(year, month) changes no invoice of another period
\* (status, total, paid timestamp, items) and no unit, tenant or occupancy;
\* paying an invoice changes that invoice's status and paid timestamp and
\* nothing else
C23_OnlyOwnPeriodOrInvoice ==
    [][/\ \A p \in GenPeriods :
             (/\ lastGen'.op = "create_invoices"
              /\ lastGen'.year = p[1] /\ lastGen'.month = p[2])
             => /\ UNCHANGED <<units, tenants, occupancies>>
                /\ \A i \in 1..Len(invoices) :
                      (invoices[i].year # p[1] \/ invoices[i].month # p[2])
                      => UntouchedInvoice(i, invoices, invoices',
                                          invoice_items, invoice_items')
       /\ (lastGen'.op # "create_invoices" /\ invoices' # invoices)
          => /\ UNCHANGED <<units, tenants, occupancies, invoice_items>>
             /\ \E i \in 1..Len(invoices) : OnlyPaid(i, invoices, invoices')]_vars

\* March has just been generated again for a tenant who holds a paid
\* invoice with items for February
C23_Witness ==
    /\ lastGen.op = "create_invoices" /\ lastGen.again
    /\ \E i, j \in 1..Len(invoices) :
          /\ invoices[i].tenant_id = invoices[j].tenant_id
          /\ invoices[i].month # lastGen.month
          /\ invoices[i].status = "paid"
          /\ StoredItems(invoice_items, i) # <<>>
          /\ invoices[j].month = lastGen.month
          /\ invoices[j].status = "pending"

----------------------------------------------------------------------------
(* Check-out and check-in *)

\* C24: an end_date that is set is never changed: a second end_occupancy
\* on a closed occupancy leaves its end_date as it is
C24_EndDateSetOnce ==
    [][\A k \in 1..Len(occupancies) :
          occupancies[k].end_date # NULL
          => occupancies'[k].end_date = occupancies[k].end_date]_vars

\* what assign_unit(unit_id, tenant_id, start) has done in this step
AssignedAs(unit_id, tenant_id, start) ==
    IF unit_id \in 1..Len(units)
    THEN /\ assign_unit_error(units, unit_id) = "none"
         /\ Len(occupancies') = Len(occupancies) + 1
         /\ \A k \in 1..Len(occupancies) : occupancies'[k] = occupancies[k]
         /\ occupancies'[Len(occupancies')] =
               [unit_id |-> unit_id,
                tenant_id |-> tenant_id,
                start_date |-> start,
                end_date |-> NULL,
                daily_rate |-> units[unit_id].daily_rate]
    ELSE /\ assign_unit_error(units, unit_id) # "none"
         /\ occupancies' = occupancies

\* C26: assign_unit for a unit id that does not exist fails and creates no
\* occupancy; for a unit that exists it creates exactly one occupancy, with
\* the given unit, tenant and start date, no end_date and the unit's rate
\* of that moment
C26_AssignCreatesOne ==
    [][\A u \in 1..Cardinality(StoreUnitNames), t \in StoreTenantIds,
          d \in StoreStarts :
          assign_unit(u, t, d) => AssignedAs(u, t, d)]_vars

\* one unit exists, and it was assigned twice, at two different rates
C26_Witness ==
    /\ Len(units) = 1
    /\ Len(occupancies) = 2
    /\ occupancies[1].daily_rate # occupancies[2].daily_rate
    /\ occupancies[2].daily_rate = units[1].daily_rate
    /\ occupancies[2].end_date = NULL

----------------------------------------------------------------------------
(* Sessions (SpecAuth) *)

\* token was issued by a successful login and is not past its 12 hours
WithinLifetime(token) ==
    /\ token \in 1..Len(login_records)
    /\ clock < login_records[token].login_time + SessionHours

\* the login with these credentials is a successful one
GoodLogin(username, password) ==
    username = "admin" /\ password = "admin123"

\* C22: a token authenticates a request only after the successful login
\* that issued it and before both its expiry, 12 hours after that login,
\* and its logout: get_current_user returns no user for an unknown token,
\* for an expired token, which that read removes from the store, and for a
\* token after logout; a failed login creates no session
C22_SessionLifetime ==
    [][/\ \A token \in RequestTokens :
             get_current_user(sessions, token, clock) # NULL
             => token \in DOMAIN sessions /\ WithinLifetime(token)
       /\ \A token \in DOMAIN sessions :
             /\ token \in 1..Len(login_records)
             /\ sessions[token].expiry =
                   login_records[token].login_time + SessionHours
       /\ \A token \in RequestTokens :
             /\ (lastGen'.op = "redirect_login" /\ lastGen'.token = token)
                => /\ ~(token \in DOMAIN sessions /\ WithinLifetime(token))
                   /\ token \notin DOMAIN sessions'
                   /\ tenants' = tenants
             /\ logout(token) => token \notin DOMAIN sessions'
             /\ (token \in 1..Len(login_records)
                 /\ token \notin DOMAIN sessions)
                => token \notin DOMAIN sessions'
       /\ \A u \in LoginNames, pw \in LoginPasswords :
             login_submit(u, pw)
             => IF GoodLogin(u, pw)
                THEN /\ DOMAIN sessions' = DOMAIN sessions \cup {new_token}
                     /\ get_current_user(sessions', new_token, clock') # NULL
                ELSE sessions' = sessions]_vars

\* a request that carried the first token, which is past its expiry, was
\* turned away and the token is gone from the store; the second session was
\* ended by a logout before its expiry
C22_Witness ==
    /\ Len(login_records) = 2
    /\ sessions = NoSessions
    /\ login_records[1].login_time + SessionHours <= clock
    /\ clock < login_records[2].login_time + SessionHours
    /\ lastGen.op = "redirect_login" /\ lastGen.token = 1

----------------------------------------------------------------------------
(* Requests without a valid session (SpecRoutes) *)

\* the step is a request of a writing route that carries token
WritingRequest(token) ==
    \/ add_unit_submit(token, "U1", 10)
    \/ edit_unit_request(token, 1, "U3", 30)
    \/ add_tenant_submit(token, "T1")
    \/ \E d \in InvoicedStarts : add_occupancy_submit(token, 1, 1, d)
    \/ \E d \in InvoicedEnds : end_occupancy_endpoint(token, 1, d)
    \/ \E today \in Todays : generate_invoices_request(token, NULL, NULL, today)
    \/ pay_invoice_endpoint(token, 1)

\* the token is none, unknown or expired
NoValidSession(token) ==
    \/ token = 0
    \/ token \notin DOMAIN sessions
    \/ sessions[token].expiry <= clock

\* C25: a request without a valid session (no token, unknown token, expired
\* token) to a route that adds or edits a unit, adds a tenant, assigns or
\* ends an occupancy, generates invoices or pays an invoice changes nothing
\* that is stored and is sent to the login page
C25_NoSessionNoWrite ==
    [][\A token \in RouteTokens :
          (NoValidSession(token) /\ WritingRequest(token))
          => /\ UNCHANGED <<units, tenants, occupancies, invoices,
                            invoice_items, login_records>>
             /\ lastGen'.op = "redirect_login"]_vars

\* a request with an expired token has just been turned away from a
\* database that holds a unit, a tenant, an occupancy and a pending invoice
C25_Witness ==
    /\ lastGen.op = "redirect_login"
    /\ lastGen.token \in 1..Len(login_records)
    /\ login_records[lastGen.token].login_time + SessionHours <= clock
    /\ Len(units) = 1 /\ Len(tenants) >= 1 /\ Len(occupancies) = 1
    /\ occupancies[1].end_date = NULL
    /\ Len(invoices) = 1 /\ invoices[1].status = "pending"

====
